---- MODULE Spec2Model ----
(***************************************************************************)
(* Model of markdown_bash_checker.py: the renderer callback that           *)
(* classifies fenced code blocks (MyRenderer), the command classes         *)
(* (BashExec, BashEnv, BashOutput), the shell wrapper run(cmd) and the     *)
(* engine loop MarkdownChecker._execute_bash_commands.                     *)
(*                                                                         *)
(* A Python str is a sequence of one-character strings; the bytes that     *)
(* subprocess.check_output returns are a sequence of byte values.          *)
(* A Python object is a record; its identity is the field id.              *)
(***************************************************************************)
EXTENDS Integers, Sequences, FiniteSets, TLC

\* ------------------------------------------------------------------ bounds
\* Longest document (number of fenced code blocks handed to block_code).
MaxBlocks == 3
\* Longest string handed to compare_with_actual_output by a direct caller.
MaxStrLen == 3
\* Most calls of _execute_bash_commands on one MarkdownChecker.
MaxRuns == 2

\* ------------------------------------------------------- strings and bytes
NL == "\n"
Chars == {"f", NL}

\* Python's None, and a value that is not None.
None == [is_none |-> TRUE]
Some(v) == [is_none |-> FALSE, value |-> v]

\* str.endswith("\n")
EndsWithNewline(s) == Len(s) > 0 /\ s[Len(s)] = NL

\* s[:-1]
DropLast(s) == IF Len(s) = 0 THEN s ELSE SubSeq(s, 1, Len(s) - 1)

\* '\n'.join(strings)
RECURSIVE Join(_)
Join(strings) ==
    IF Len(strings) = 0 THEN << >>
    ELSE IF Len(strings) = 1 THEN strings[1]
    ELSE strings[1] \o << NL >> \o Join(Tail(strings))

\* result.decode('utf-8') of run(): every byte below 128 decodes to its ASCII
\* character; 0xFF is an invalid start byte and raises UnicodeDecodeError.
DecodeOk(bs) == \A i \in 1..Len(bs) : bs[i] < 128
DecodeChar(b) == IF b = 10 THEN NL ELSE "f"
Decode(bs) == [i \in 1..Len(bs) |-> DecodeChar(bs[i])]

\* ------------------------------------------------------------ input sets
\* The code of a fenced block, as the markdown parser hands it over.
Texts == { << >>, << "f" >>, << "f", NL >> }
RecognizedLangs == {"bash-env", "bash-exec", "bash-output"}
\* lang is None for a block without an info string.
NoLang == "<none>"
Blocks ==
    { [code |-> c, lang |-> l] : c \in Texts, l \in RecognizedLangs }
      \cup { [code |-> << "f" >>, lang |-> l] : l \in {"python", NoLang} }

\* What a shell invocation can do: exit 0 or not, with some captured stdout.
\* The bytes written are 102 ('f'), 10 ('\n') and 255 (never valid UTF-8).
Outputs == { << >>, << 102 >>, << 102, 10 >>, << 102, 10, 10 >>, << 255 >> }
FailOutputs == { << >>, << 102 >> }
ExitCodes == {0, 1, 127}

RECURSIVE StringsUpTo(_)
StringsUpTo(n) ==
    IF n = 0 THEN { << >> }
    ELSE LET shorter == StringsUpTo(n - 1)
         IN  shorter \cup { Append(s, c) : s \in { t \in shorter : Len(t) = n - 1 }, c \in Chars }

VARIABLES
    doc,                            \* blocks handed to block_code so far (history)
    bash_commands,                  \* MyRenderer._bash_commands / MarkdownChecker._bash_commands
    pc,                             \* "parse", "exec", "done", "failed", "unit"
    idx,                            \* position of the for loop in _bash_commands (1-based)
    current_env_altering_commands,  \* local of _execute_bash_commands
    most_recent_result,             \* local of _execute_bash_commands
    scripts,                        \* every cmd handed to run(), with the position that sent it (history)
    last_invocation,                \* the latest call of run(): script, exit status, captured bytes
    last_compare,                   \* the compare_with_actual_output call of the latest step, if any
    error,                          \* the exception that left _execute_bash_commands, if any
    replay_failed,                  \* a command of some script, other than its last, exited non-zero (history)
    shell,                          \* whether the shell is a function of the script, and what it answered
    first_run,                      \* scripts and outcome of the previous call of _execute_bash_commands
    runs                            \* calls of _execute_bash_commands so far

vars == << doc, bash_commands, pc, idx, current_env_altering_commands,
           most_recent_result, scripts, last_invocation, last_compare, error,
           replay_failed, shell, first_run, runs >>

\* What only a shell invocation changes, and what only a new call of
\* _execute_bash_commands changes.
shell_vars == << replay_failed, shell >>
call_vars == << first_run, runs >>

\* ------------------------------------------------------------ the classes
\* isinstance(command, cls): BashEnv is a subclass of BashExec.
IsInstance(command, cls) ==
    \/ command.cls = cls
    \/ cls = "BashExec" /\ command.cls = "BashEnv"

\* BashExec.get_executable_command_string
get_executable_command_string(command) == command.code

\* Mutant: the command's own string is put before its prerequisites.
all_commands_own_first(command, prereqs) ==
    << get_executable_command_string(command) >>
        \o [i \in 1..Len(prereqs) |-> get_executable_command_string(prereqs[i])]

\* The list comprehension of execute_with_prereqs_and_return_results.
all_commands(command, prereqs) ==
    [i \in 1..Len(prereqs) |-> get_executable_command_string(prereqs[i])]
        \o << get_executable_command_string(command) >>

\* The cmd that execute_with_prereqs_and_return_results hands to run().
ScriptOf(command, prereqs) == Join(all_commands(command, prereqs))

\* Mutant: every trailing newline is stripped (rstrip("\n")).
RECURSIVE StripAllNewlines(_)
StripAllNewlines(s) ==
    IF EndsWithNewline(s) THEN StripAllNewlines(DropLast(s)) ELSE s

TrimmedActual_rstrip(actual_output, trim_trailing_newline) ==
    IF trim_trailing_newline THEN StripAllNewlines(actual_output) ELSE actual_output

\* BashOutput.compare_with_actual_output: the actual output after the
\* optional trim, and whether the comparison returns (TRUE) or raises.
TrimmedActual(actual_output, trim_trailing_newline) ==
    IF trim_trailing_newline /\ EndsWithNewline(actual_output)
    THEN DropLast(actual_output)
    ELSE actual_output

compare_with_actual_output(output_to_check, actual_output, trim_trailing_newline) ==
    output_to_check = TrimmedActual(actual_output, trim_trailing_newline)

\* The record of one call of compare_with_actual_output.
CompareCall(pos, output_to_check, actual_output, trim) ==
    [ is_none  |-> FALSE,
      pos      |-> pos,
      expected |-> output_to_check,
      actual   |-> actual_output,
      trim     |-> trim,
      returned |-> compare_with_actual_output(output_to_check, actual_output, trim),
      shown    |-> TrimmedActual(actual_output, trim) ]

\* The message of the Exception that compare_with_actual_output raises: the
\* two literal parts of the format string are one element each.
ComparisonMessage(expected, actual) ==
    << "Expected result does not match actual result.  Expected = " >>
        \o expected \o << NL, "Actual = " >> \o actual \o << NL >>

\* Mutant: the message shows the actual output as it was before the trim.
ComparisonError_untrimmed(pos, call) ==
    [is_none |-> FALSE, type |-> "Exception", pos |-> pos,
     message |-> ComparisonMessage(call.expected, call.actual)]

\* The Exception raised on a mismatch, for the call at position pos.
ComparisonError(pos, call) ==
    [is_none |-> FALSE, type |-> "Exception", pos |-> pos,
     message |-> ComparisonMessage(call.expected, call.shown)]

\* Mutant: a block with any other tag is taken for an executable command.
_bash_command_factory_else_exec(lang) ==
    IF lang = "bash-env" THEN "BashEnv"
    ELSE IF lang = "bash-output" THEN "BashOutput"
    ELSE "BashExec"

\* MyRenderer._bash_command_factory: the class of the object it returns,
\* "None" when it falls through to pass.
_bash_command_factory(lang) ==
    IF lang = "bash-env" THEN "BashEnv"
    ELSE IF lang = "bash-exec" THEN "BashExec"
    ELSE IF lang = "bash-output" THEN "BashOutput"
    ELSE "None"

\* MyRenderer._update_bash_commands: the list after the call.
_update_bash_commands(commands, code, lang, id) ==
    LET cls == _bash_command_factory(lang)
    IN  IF cls # "None"
        THEN Append(commands, [cls |-> cls, code |-> code, id |-> id])
        ELSE commands

\* Mutant: the chain tests BashExec first, which every BashEnv is too.
Dispatch_exec_first(command) ==
    IF IsInstance(command, "BashExec") THEN "exec"
    ELSE IF IsInstance(command, "BashEnv") THEN "env"
    ELSE IF IsInstance(command, "BashOutput") THEN "output"
    ELSE "other"

\* The branch of the isinstance chain of _execute_bash_commands.
Dispatch(command) ==
    IF IsInstance(command, "BashEnv") THEN "env"
    ELSE IF IsInstance(command, "BashExec") THEN "exec"
    ELSE IF IsInstance(command, "BashOutput") THEN "output"
    ELSE "other"

\* -------------------------------------------------------------- the state
Init ==
    /\ doc = << >>
    /\ bash_commands = << >>
    /\ pc = "parse"
    /\ idx = 0
    /\ current_env_altering_commands = << >>
    /\ most_recent_result = None
    /\ scripts = << >>
    /\ last_invocation = None
    /\ last_compare = None
    /\ error = None
    /\ replay_failed = FALSE
    /\ shell = [deterministic |-> FALSE, seen |-> {}]
    /\ first_run = None
    /\ runs = 0

\* MyRenderer.block_code, called by the markdown parser once per fenced block
\* in source order.
block_code(code, lang) ==
    /\ pc = "parse"
    /\ Len(doc) < MaxBlocks
    /\ doc' = Append(doc, [code |-> code, lang |-> lang])
    /\ bash_commands' = _update_bash_commands(bash_commands, code, lang, Len(doc) + 1)
    /\ UNCHANGED << pc, idx, current_env_altering_commands, most_recent_result,
                    scripts, last_invocation, last_compare, error >>
    /\ UNCHANGED << shell_vars, call_vars >>

\* Mutant: the list is kept from one call to the next (as an attribute set
\* once in __init__ would be).
EnterLoop_keeps_list ==
    /\ pc' = "exec"
    /\ idx' = 1
    /\ most_recent_result' = None
    /\ UNCHANGED current_env_altering_commands

\* The first lines of _execute_bash_commands: the two locals are initialised
\* and the loop starts at the first command.
EnterLoop ==
    /\ pc' = "exec"
    /\ idx' = 1
    /\ current_env_altering_commands' = << >>
    /\ most_recent_result' = None

\* _execute_bash_commands is called after the document was parsed.
_execute_bash_commands ==
    /\ pc = "parse"
    /\ EnterLoop
    /\ runs' = runs + 1
    /\ UNCHANGED << doc, bash_commands, scripts, last_invocation, last_compare, error,
                    shell_vars, first_run >>

\* run(cmd) as called by execute_with_prereqs_and_return_results for the
\* command at idx: the shell exits with status rc after writing out.
\* Gives the script log, the invocation record, and either the returned str
\* or the exception.
RunRaises(rc, out) == rc # 0 \/ ~DecodeOk(out)

RunError(pos, rc, out) ==
    IF rc # 0
    THEN [is_none |-> FALSE, type |-> "CalledProcessError", pos |-> pos,
          returncode |-> rc, output |-> out]
    ELSE [is_none |-> FALSE, type |-> "UnicodeDecodeError", pos |-> pos]

Invocation(pos, script, rc, out) ==
    [is_none |-> FALSE, pos |-> pos, script |-> script, returncode |-> rc, output |-> out]

ShellOutcomes ==
    { << 0, out >> : out \in Outputs } \cup
    { << rc, out >> : rc \in ExitCodes \ {0}, out \in FailOutputs }

\* The commands of a script: its non-empty lines.
CommandCount(script) ==
    Cardinality({ i \in 1..Len(script) :
                    script[i] # NL /\ (i = 1 \/ script[i - 1] = NL) })

\* subprocess.check_output(cmd, shell=True): the shell runs the lines of cmd
\* one after the other and exits with the status of the last command, so a
\* script of two or more commands can exit with any status after an earlier
\* command exited non-zero (third component).
ShellRuns(script) ==
    { << o[1], o[2], earlier_failed >> :
        o \in ShellOutcomes,
        earlier_failed \in IF CommandCount(script) >= 2 THEN BOOLEAN ELSE {FALSE} }

\* The answers of the shells that are a function of the script: each script
\* gets one of these, the first time it is submitted.
RepeatableRuns ==
    { << 0, << >>, FALSE >>, << 0, << 102 >>, FALSE >>, << 0, << 102, 10 >>, FALSE >>,
      << 0, << 255 >>, FALSE >>, << 1, << >>, FALSE >> }

\* What the shell can answer to script: anything, unless the shell is a
\* function of the script, which answers a script it has seen as before.
ShellAnswers(script) ==
    LET known == { r \in shell.seen : r.script = script }
    IN  IF shell.deterministic
        THEN IF known # {} THEN { r.run : r \in known } ELSE RepeatableRuns
        ELSE ShellRuns(script)

ShellAfter(script, o) ==
    IF shell.deterministic
    THEN [shell EXCEPT !.seen = @ \cup { [script |-> script, run |-> o] }]
    ELSE shell

\* Mutant: the environment command is inserted at the front of the list.
EnvListAfterEnv_prepends(env_commands, command) == << command >> \o env_commands

\* current_env_altering_commands.append(command) of the BashEnv branch.
EnvListAfterEnv(env_commands, command) == Append(env_commands, command)

\* Mutant: the BashEnv branch runs the command and drops what it returned.
EnvBranchResult_dropped(previous, returned) == previous

\* The assignment to most_recent_result of the BashEnv branch.
EnvBranchResult(previous, returned) == Some(returned)

\* Mutant: an empty output is stored as None (result or None).
ExecBranchResult_empty_is_none(previous, returned) ==
    IF returned = << >> THEN None ELSE Some(returned)

\* The assignment to most_recent_result of the BashExec branch.
ExecBranchResult(previous, returned) == Some(returned)

\* Mutant: the assert tests the truth value, so an empty result fails it.
ResultIsNotNone_truthy(result) == ~result.is_none /\ result.value # << >>

\* most_recent_result is not None
ResultIsNotNone(result) == ~result.is_none

\* Mutant: the command is appended before it is executed, so it stays in
\* the list when its execution fails.
EnvBranch_appends_first ==
    /\ pc = "exec"
    /\ idx <= Len(bash_commands)
    /\ Dispatch(bash_commands[idx]) = "env"
    /\ \E o \in ShellAnswers(ScriptOf(bash_commands[idx], current_env_altering_commands)) :
        LET command == bash_commands[idx]
            script  == ScriptOf(command, current_env_altering_commands)
            rc      == o[1]
            out     == o[2]
        IN  /\ scripts' = Append(scripts, [pos |-> idx, script |-> script])
            /\ replay_failed' = (replay_failed \/ o[3])
            /\ shell' = ShellAfter(script, o)
            /\ last_invocation' = Invocation(idx, script, rc, out)
            /\ last_compare' = None
            /\ current_env_altering_commands' =
                   EnvListAfterEnv(current_env_altering_commands, command)
            /\ IF RunRaises(rc, out)
               THEN /\ error' = RunError(idx, rc, out)
                    /\ pc' = "failed"
                    /\ UNCHANGED << idx, most_recent_result >>
               ELSE /\ most_recent_result' = EnvBranchResult(most_recent_result, Decode(out))
                    /\ idx' = idx + 1
                    /\ UNCHANGED << pc, error >>
    /\ UNCHANGED << doc, bash_commands >>
    /\ UNCHANGED call_vars

\* The isinstance(command, BashEnv) branch of the loop.
EnvBranch ==
    /\ pc = "exec"
    /\ idx <= Len(bash_commands)
    /\ Dispatch(bash_commands[idx]) = "env"
    /\ \E o \in ShellAnswers(ScriptOf(bash_commands[idx], current_env_altering_commands)) :
        LET command == bash_commands[idx]
            script  == ScriptOf(command, current_env_altering_commands)
            rc      == o[1]
            out     == o[2]
        IN  /\ scripts' = Append(scripts, [pos |-> idx, script |-> script])
            /\ replay_failed' = (replay_failed \/ o[3])
            /\ shell' = ShellAfter(script, o)
            /\ last_invocation' = Invocation(idx, script, rc, out)
            /\ last_compare' = None
            /\ IF RunRaises(rc, out)
               THEN /\ error' = RunError(idx, rc, out)
                    /\ pc' = "failed"
                    /\ UNCHANGED << idx, most_recent_result, current_env_altering_commands >>
               ELSE /\ most_recent_result' = EnvBranchResult(most_recent_result, Decode(out))
                    /\ current_env_altering_commands' =
                           EnvListAfterEnv(current_env_altering_commands, command)
                    /\ idx' = idx + 1
                    /\ UNCHANGED << pc, error >>
    /\ UNCHANGED << doc, bash_commands >>
    /\ UNCHANGED call_vars

\* Mutant: a failing execution is caught and the loop goes on.
ExecBranch_continues ==
    /\ pc = "exec"
    /\ idx <= Len(bash_commands)
    /\ Dispatch(bash_commands[idx]) = "exec"
    /\ \E o \in ShellAnswers(ScriptOf(bash_commands[idx], current_env_altering_commands)) :
        LET command == bash_commands[idx]
            script  == ScriptOf(command, current_env_altering_commands)
            rc      == o[1]
            out     == o[2]
        IN  /\ scripts' = Append(scripts, [pos |-> idx, script |-> script])
            /\ replay_failed' = (replay_failed \/ o[3])
            /\ shell' = ShellAfter(script, o)
            /\ last_invocation' = Invocation(idx, script, rc, out)
            /\ last_compare' = None
            /\ idx' = idx + 1
            /\ IF RunRaises(rc, out)
               THEN /\ error' = RunError(idx, rc, out)
                    /\ UNCHANGED << pc, most_recent_result >>
               ELSE /\ most_recent_result' = ExecBranchResult(most_recent_result, Decode(out))
                    /\ UNCHANGED << pc, error >>
    /\ UNCHANGED << doc, bash_commands, current_env_altering_commands >>
    /\ UNCHANGED call_vars

\* Mutant: the executable command is added to the environment list too.
ExecBranch_appends ==
    /\ pc = "exec"
    /\ idx <= Len(bash_commands)
    /\ Dispatch(bash_commands[idx]) = "exec"
    /\ \E o \in ShellAnswers(ScriptOf(bash_commands[idx], current_env_altering_commands)) :
        LET command == bash_commands[idx]
            script  == ScriptOf(command, current_env_altering_commands)
            rc      == o[1]
            out     == o[2]
        IN  /\ scripts' = Append(scripts, [pos |-> idx, script |-> script])
            /\ replay_failed' = (replay_failed \/ o[3])
            /\ shell' = ShellAfter(script, o)
            /\ last_invocation' = Invocation(idx, script, rc, out)
            /\ last_compare' = None
            /\ IF RunRaises(rc, out)
               THEN /\ error' = RunError(idx, rc, out)
                    /\ pc' = "failed"
                    /\ UNCHANGED << idx, most_recent_result, current_env_altering_commands >>
               ELSE /\ most_recent_result' = ExecBranchResult(most_recent_result, Decode(out))
                    /\ current_env_altering_commands' =
                           Append(current_env_altering_commands, command)
                    /\ idx' = idx + 1
                    /\ UNCHANGED << pc, error >>
    /\ UNCHANGED << doc, bash_commands >>
    /\ UNCHANGED call_vars

\* The isinstance(command, BashExec) branch of the loop.
ExecBranch ==
    /\ pc = "exec"
    /\ idx <= Len(bash_commands)
    /\ Dispatch(bash_commands[idx]) = "exec"
    /\ \E o \in ShellAnswers(ScriptOf(bash_commands[idx], current_env_altering_commands)) :
        LET command == bash_commands[idx]
            script  == ScriptOf(command, current_env_altering_commands)
            rc      == o[1]
            out     == o[2]
        IN  /\ scripts' = Append(scripts, [pos |-> idx, script |-> script])
            /\ replay_failed' = (replay_failed \/ o[3])
            /\ shell' = ShellAfter(script, o)
            /\ last_invocation' = Invocation(idx, script, rc, out)
            /\ last_compare' = None
            /\ IF RunRaises(rc, out)
               THEN /\ error' = RunError(idx, rc, out)
                    /\ pc' = "failed"
                    /\ UNCHANGED << idx, most_recent_result >>
               ELSE /\ most_recent_result' = ExecBranchResult(most_recent_result, Decode(out))
                    /\ idx' = idx + 1
                    /\ UNCHANGED << pc, error >>
    /\ UNCHANGED << doc, bash_commands, current_env_altering_commands >>
    /\ UNCHANGED call_vars

\* Mutant: the trimmed output is stored back into most_recent_result.
OutputBranch_stores_trimmed ==
    /\ pc = "exec"
    /\ idx <= Len(bash_commands)
    /\ Dispatch(bash_commands[idx]) = "output"
    /\ LET command == bash_commands[idx]
       IN  IF ~ResultIsNotNone(most_recent_result)
           THEN /\ error' = [is_none |-> FALSE, type |-> "AssertionError", pos |-> idx]
                /\ pc' = "failed"
                /\ last_compare' = None
                /\ UNCHANGED << idx, most_recent_result >>
           ELSE LET call == CompareCall(idx, command.code, most_recent_result.value, TRUE)
                IN  /\ last_compare' = call
                    /\ most_recent_result' = Some(call.shown)
                    /\ IF call.returned
                       THEN /\ idx' = idx + 1
                            /\ UNCHANGED << pc, error >>
                       ELSE /\ error' = ComparisonError(idx, call)
                            /\ pc' = "failed"
                            /\ UNCHANGED idx
    /\ UNCHANGED << doc, bash_commands, current_env_altering_commands,
                    scripts, last_invocation >>
    /\ UNCHANGED << shell_vars, call_vars >>

\* The isinstance(command, BashOutput) branch of the loop.
OutputBranch ==
    /\ pc = "exec"
    /\ idx <= Len(bash_commands)
    /\ Dispatch(bash_commands[idx]) = "output"
    /\ LET command == bash_commands[idx]
       IN  IF ~ResultIsNotNone(most_recent_result)
           THEN \* assert most_recent_result is not None
                /\ error' = [is_none |-> FALSE, type |-> "AssertionError", pos |-> idx]
                /\ pc' = "failed"
                /\ last_compare' = None
                /\ UNCHANGED idx
           ELSE LET call == CompareCall(idx, command.code, most_recent_result.value, TRUE)
                IN  /\ last_compare' = call
                    /\ IF call.returned
                       THEN /\ idx' = idx + 1
                            /\ UNCHANGED << pc, error >>
                       ELSE /\ error' = ComparisonError(idx, call)
                            /\ pc' = "failed"
                            /\ UNCHANGED idx
    /\ UNCHANGED << doc, bash_commands, current_env_altering_commands, most_recent_result,
                    scripts, last_invocation >>
    /\ UNCHANGED << shell_vars, call_vars >>

\* The else branch of the loop (assert False): enabled only for a command
\* that is an instance of none of the three classes.  The factory creates no
\* such command, so the branch is not a disjunct of Next.
OtherBranch ==
    /\ pc = "exec"
    /\ idx <= Len(bash_commands)
    /\ Dispatch(bash_commands[idx]) = "other"
    /\ error' = [is_none |-> FALSE, type |-> "AssertionError", pos |-> idx]
    /\ pc' = "failed"
    /\ UNCHANGED << doc, bash_commands, idx, current_env_altering_commands,
                    most_recent_result, scripts, last_invocation, last_compare >>
    /\ UNCHANGED << shell_vars, call_vars >>

\* The for loop is exhausted: _execute_bash_commands returns.
LoopEnd ==
    /\ pc = "exec"
    /\ idx = Len(bash_commands) + 1
    /\ pc' = "done"
    /\ UNCHANGED << doc, bash_commands, idx, current_env_altering_commands,
                    most_recent_result, scripts, last_invocation, last_compare, error >>
    /\ UNCHANGED << shell_vars, call_vars >>

\* The exit status of the command line run (go called from __main__): an
\* exception that leaves _execute_bash_commands is caught nowhere, and the
\* interpreter exits with status 1; otherwise it exits with status 0.
ExitStatus == IF pc = "failed" THEN 1 ELSE 0

Next ==
    \/ \E b \in Blocks : block_code(b.code, b.lang)
    \/ _execute_bash_commands
    \/ EnvBranch
    \/ ExecBranch
    \/ OutputBranch
    \/ LoopEnd

Spec == Init /\ [][Next]_vars

\* ------------------------------------------- a direct caller of the compare
\* compare_with_actual_output called directly (its trim_trailing_newline
\* parameter defaults to False; only the engine fixes it to True).
InitVerify ==
    /\ doc = << >>
    /\ bash_commands = << >>
    /\ pc \in {"parse", "unit"}
    /\ idx = 0
    /\ current_env_altering_commands = << >>
    /\ most_recent_result = None
    /\ scripts = << >>
    /\ last_invocation = None
    /\ last_compare = None
    /\ error = None
    /\ replay_failed = FALSE
    /\ shell = [deterministic |-> FALSE, seen |-> {}]
    /\ first_run = None
    /\ runs = 0

UnitCompare ==
    /\ pc = "unit"
    /\ \E e \in StringsUpTo(MaxStrLen), a \in StringsUpTo(MaxStrLen), t \in BOOLEAN :
        LET call == CompareCall(0, e, a, t)
        IN  /\ last_compare' = call
            /\ error' = IF call.returned THEN None ELSE ComparisonError(0, call)
    /\ UNCHANGED << doc, bash_commands, pc, idx, current_env_altering_commands,
                    most_recent_result, scripts, last_invocation >>
    /\ UNCHANGED << shell_vars, call_vars >>

NextVerify ==
    \/ Next
    \/ UnitCompare

SpecVerify == InitVerify /\ [][NextVerify]_vars

\* ------------------------------------- two runs over the same commands
\* _execute_bash_commands is called again on the same MarkdownChecker, whose
\* _bash_commands are still the parsed ones.  The record of the call that
\* ended is kept aside and the logs start anew.
_execute_bash_commands_again ==
    /\ pc \in {"done", "failed"}
    /\ runs < MaxRuns
    /\ EnterLoop
    /\ runs' = runs + 1
    /\ first_run' = [is_none |-> FALSE, scripts |-> scripts, outcome |-> pc, error |-> error]
    /\ scripts' = << >>
    /\ last_invocation' = None
    /\ last_compare' = None
    /\ error' = None
    /\ replay_failed' = FALSE
    /\ UNCHANGED << doc, bash_commands, shell >>

\* The shell is a function of the script it is given.
InitRerun ==
    /\ doc = << >>
    /\ bash_commands = << >>
    /\ pc = "parse"
    /\ idx = 0
    /\ current_env_altering_commands = << >>
    /\ most_recent_result = None
    /\ scripts = << >>
    /\ last_invocation = None
    /\ last_compare = None
    /\ error = None
    /\ replay_failed = FALSE
    /\ shell = [deterministic |-> TRUE, seen |-> {}]
    /\ first_run = None
    /\ runs = 0

NextRerun ==
    \/ Next
    \/ _execute_bash_commands_again

SpecRerun == InitRerun /\ [][NextRerun]_vars

\* ------------------------------------------------------ shared vocabulary
ErrType(e) == IF e.is_none THEN "None" ELSE e.type

ClassAt(i) == bash_commands[i].cls

\* The loop is about to process the command at idx, and it is of class cls.
AboutToProcess(cls) ==
    pc = "exec" /\ idx <= Len(bash_commands) /\ ClassAt(idx) = cls

ClassesAre(seq) ==
    Len(bash_commands) = Len(seq) /\ \A i \in 1..Len(seq) : ClassAt(i) = seq[i]

\* ---------------------------------------------------------------- claims

\* The script the replay rule prescribes for position i: every BashEnv text
\* at a position before i, each followed by a newline, then the own text.
RECURSIVE ReplayPrefix(_)
ReplayPrefix(i) ==
    IF i = 0 THEN << >>
    ELSE IF ClassAt(i) = "BashEnv"
         THEN ReplayPrefix(i - 1) \o bash_commands[i].code \o << NL >>
         ELSE ReplayPrefix(i - 1)

ReplayScript(i) == ReplayPrefix(i - 1) \o bash_commands[i].code

\* C1: every script handed to the shell for the command at position i is the
\* texts of all environment commands before i, in document order, then the
\* command's own text, joined by newlines; each processed environment or
\* executable command causes exactly one such invocation, in document order.
C1_ReplayRule ==
    /\ \A k \in 1..Len(scripts) :
        LET i == scripts[k].pos
        IN  /\ i \in 1..Len(bash_commands)
            /\ ClassAt(i) \in {"BashEnv", "BashExec"}
            /\ scripts[k].script = ReplayScript(i)
            /\ k > 1 => scripts[k - 1].pos < i
    /\ pc \in {"exec", "done", "failed"} =>
        \A i \in 1..Len(bash_commands) :
            (i < idx /\ ClassAt(i) \in {"BashEnv", "BashExec"})
                => \E k \in 1..Len(scripts) : scripts[k].pos = i

\* An executable command between an environment command and a later
\* executable command has run, and the later one has been submitted.
C1_Witness ==
    /\ ClassesAre(<< "BashEnv", "BashExec", "BashExec" >>)
    /\ Len(scripts) = 3
    /\ bash_commands[1].code = << "f", NL >>
    /\ bash_commands[2].code = << "f" >>
    /\ bash_commands[3].code = << >>

IsEnvCommand(c) == c.cls = "BashEnv"

\* The environment commands among the first n classified commands.
EnvsOfPrefix(n) == SelectSeq(SubSeq(bash_commands, 1, n), IsEnvCommand)

C2_PrefixInv ==
    pc \in {"exec", "done", "failed"} =>
        current_env_altering_commands = EnvsOfPrefix(idx - 1)

C2_GrowsByAppend ==
    \/ current_env_altering_commands' = current_env_altering_commands
    \/ /\ AboutToProcess("BashEnv")
       /\ current_env_altering_commands' =
              Append(current_env_altering_commands, bash_commands[idx])

\* C2: after any prefix processed without failure the accumulated list is the
\* subsequence of environment commands of that prefix, in document order, and
\* every step either leaves the list alone or appends the current
\* environment command at its end.
C2_EnvListIsPrefixSubsequence ==
    [][C2_GrowsByAppend /\ C2_PrefixInv']_vars

\* Two environment commands with another command between them are accumulated.
C2_Witness ==
    /\ ClassesAre(<< "BashEnv", "BashExec", "BashEnv" >>)
    /\ pc = "done"
    /\ Len(current_env_altering_commands) = 2

C3_Step ==
    /\ ~most_recent_result.is_none => ~most_recent_result'.is_none
    /\ AboutToProcess("BashOutput") =>
        /\ (ErrType(error') = "AssertionError") <=> (scripts = << >>)
        /\ (ErrType(error') = "AssertionError") <=> last_compare'.is_none

\* C3: an output assertion raises the assertion failure, before any
\* comparison, exactly when no command has been executed successfully before
\* it; a defined most_recent_result never becomes undefined again.
C3_SequenceErrorIffNoResult == [][C3_Step]_vars

\* An assertion with nothing executed before it has failed.
C3_Witness ==
    /\ pc = "failed"
    /\ ErrType(error) = "AssertionError"
    /\ ClassAt(idx) = "BashOutput"
    /\ scripts = << >>

C4_Step ==
    /\ pc # "failed"
    /\ ErrType(error') # "None" =>
        /\ pc' = "failed"
        /\ error'.pos = idx
        /\ idx' = idx

\* C4: a step that raises an error ends the run at that position with the
\* error, and no step is ever taken after a failure (no later command is
\* executed or verified, no further shell invocation).
C4_FirstFailureStops == [][C4_Step]_vars

\* The run failed at a command that has later commands behind it, after at
\* least one shell invocation.
C4_Witness ==
    /\ pc = "failed"
    /\ Len(bash_commands) = 3
    /\ error.pos = 2
    /\ scripts # << >>

\* The nearest position before i that holds an environment or executable
\* command, 0 when there is none.
NearestExecutedBefore(i) ==
    LET S == { j \in 1..(i - 1) : ClassAt(j) \in {"BashEnv", "BashExec"} }
    IN  IF S = {} THEN 0 ELSE CHOOSE j \in S : \A m \in S : m <= j

\* C5: every comparison made by the engine is against the decoded output of
\* the shell invocation of the nearest preceding environment or executable
\* command, also when that command is an environment command.
C5_ComparedWithNearestResult ==
    ~last_compare.is_none =>
        /\ ~last_invocation.is_none
        /\ last_invocation.returncode = 0
        /\ last_invocation.pos = NearestExecutedBefore(last_compare.pos)
        /\ last_compare.actual = Decode(last_invocation.output)

\* An assertion directly after an environment command that follows an
\* executable command has been compared.
C5_Witness ==
    /\ ClassesAre(<< "BashExec", "BashEnv", "BashOutput" >>)
    /\ ~last_compare.is_none
    /\ last_compare.pos = 3
    /\ last_compare.actual = << "f", NL >>

\* What the trim rule prescribes, stated without stripping anything: an
\* actual output that ends with a newline matches the expected text extended
\* by one newline, any other actual output matches only itself.
MatchesAfterOneTrim(expected, actual) ==
    IF EndsWithNewline(actual)
    THEN actual = expected \o << NL >>
    ELSE actual = expected

\* C6: a comparison with trim succeeds exactly when the expected text equals
\* the actual output with one trailing newline removed if it has one (the
\* expected text is never trimmed); without trim it succeeds exactly when
\* the two are equal; every comparison the engine makes is with trim.
C6_VerifyTrimsOneNewline ==
    ~last_compare.is_none =>
        /\ pc # "unit" => last_compare.trim
        /\ last_compare.returned <=>
              IF last_compare.trim
              THEN MatchesAfterOneTrim(last_compare.expected, last_compare.actual)
              ELSE last_compare.expected = last_compare.actual

\* A direct call with trim on an actual output with two trailing newlines:
\* it matches the expected text that keeps one of them.
C6_Witness ==
    /\ pc = "unit"
    /\ ~last_compare.is_none
    /\ last_compare.trim
    /\ last_compare.actual = << "f", NL, NL >>
    /\ last_compare.expected = << "f", NL >>
    /\ last_compare.returned

C7_Step ==
    /\ AboutToProcess("BashExec") =>
          current_env_altering_commands' = current_env_altering_commands
    /\ \A k \in 1..Len(current_env_altering_commands') :
          current_env_altering_commands'[k].cls # "BashExec"

\* C7: processing an executable command leaves the accumulated list
\* unchanged, on success and on failure, and the list never holds an
\* executable command.
C7_ExecNeverAccumulated == [][C7_Step]_vars

\* An executable command has succeeded after an environment command and the
\* loop has moved on.
C7_Witness ==
    /\ ClassesAre(<< "BashEnv", "BashExec", "BashExec" >>)
    /\ pc = "exec"
    /\ idx = 3
    /\ Len(current_env_altering_commands) = 1

C8_Step ==
    AboutToProcess("BashEnv") =>
        /\ ErrType(error') # "None" =>
              /\ current_env_altering_commands' = current_env_altering_commands
              /\ most_recent_result' = most_recent_result
        /\ current_env_altering_commands' # current_env_altering_commands =>
              /\ ErrType(error') = "None"
              /\ last_invocation'.pos = idx
              /\ last_invocation'.returncode = 0

\* C8: an environment command is appended only after its own shell
\* invocation succeeded; when the invocation fails the list and
\* most_recent_result keep their values.
C8_EnvAppendedOnlyAfterSuccess == [][C8_Step]_vars

\* The second environment command failed in the shell after the first one
\* had produced a result and had been accumulated.
C8_Witness ==
    /\ pc = "failed"
    /\ ErrType(error) = "CalledProcessError"
    /\ idx = 2
    /\ ClassAt(1) = "BashEnv"
    /\ ClassAt(2) = "BashEnv"
    /\ Len(current_env_altering_commands) = 1
    /\ most_recent_result = Some(<< "f", NL >>)

C9_Step ==
    AboutToProcess("BashOutput") =>
        /\ scripts' = scripts
        /\ last_invocation' = last_invocation
        /\ most_recent_result' = most_recent_result
        /\ current_env_altering_commands' = current_env_altering_commands
        /\ ~last_compare'.is_none =>
              last_compare'.actual = Decode(last_invocation.output)

\* C9: processing an output assertion invokes no shell and leaves
\* most_recent_result and the accumulated list unchanged, whether it passes
\* or fails, so each of several consecutive assertions is compared against
\* the same untrimmed result.
C9_AssertionChangesNothing == [][C9_Step]_vars

\* The second of two consecutive assertions has been compared against a
\* result that ends with a newline.
C9_Witness ==
    /\ ClassesAre(<< "BashExec", "BashOutput", "BashOutput" >>)
    /\ ~last_compare.is_none
    /\ last_compare.pos = 3
    /\ last_compare.actual = << "f", NL >>
    /\ most_recent_result = Some(<< "f", NL >>)

IsRecognized(b) == b.lang \in RecognizedLangs

ClassOfTag(lang) ==
    CASE lang = "bash-env" -> "BashEnv"
      [] lang = "bash-exec" -> "BashExec"
      [] lang = "bash-output" -> "BashOutput"

\* C10: the classified sequence is the recognized blocks of the document, in
\* document order, each of the class of its tag and with its text unchanged;
\* for a document without recognized tags it is empty, and the run invokes no
\* shell, raises nothing and can only return.
C10_Classification ==
    LET recognized == SelectSeq(doc, IsRecognized)
    IN  /\ Len(bash_commands) = Len(recognized)
        /\ \A k \in 1..Len(recognized) :
              /\ bash_commands[k].cls = ClassOfTag(recognized[k].lang)
              /\ bash_commands[k].code = recognized[k].code
        /\ (recognized = << >> /\ pc # "parse") =>
              /\ bash_commands = << >>
              /\ scripts = << >>
              /\ error = None
              /\ pc \in {"exec", "done"}
              /\ pc = "exec" => ENABLED LoopEnd

\* A run over a document whose middle block carries another tag has ended
\* with the two recognized blocks classified.
C10_Witness ==
    /\ pc = "done"
    /\ Len(doc) = 3
    /\ doc[1].lang = "bash-env"
    /\ doc[2].lang = "python"
    /\ doc[3].lang = "bash-output"
    /\ ClassesAre(<< "BashEnv", "BashOutput" >>)

\* The str that the bytes out stand for, stated byte by byte.
IsTextOf(text, out) ==
    /\ Len(text) = Len(out)
    /\ \A i \in 1..Len(out) :
          /\ out[i] = 10 => text[i] = NL
          /\ out[i] = 102 => text[i] = "f"

C11_Step ==
    (AboutToProcess("BashEnv") \/ AboutToProcess("BashExec")) =>
        /\ Len(scripts') = Len(scripts) + 1
        /\ last_invocation'.pos = idx
        /\ last_invocation'.returncode # 0 =>
              /\ pc' = "failed"
              /\ ErrType(error') = "CalledProcessError"
              /\ error'.returncode = last_invocation'.returncode
              /\ error'.output = last_invocation'.output
        /\ last_invocation'.returncode = 0 =>
              /\ pc' = "exec"
              /\ ErrType(error') = "None"
              /\ ~most_recent_result'.is_none
              /\ IsTextOf(most_recent_result'.value, last_invocation'.output)

\* C11: processing an environment or executable command makes exactly one
\* shell invocation; a non-zero exit status raises the error that carries the
\* exit code and the captured output, and a zero exit status returns the
\* captured standard output.
C11_RunFailsOrReturnsOutput == [][C11_Step]_vars

\* shown is raw with one trailing newline removed if raw has one.
IsPostTrimOf(shown, raw) ==
    IF EndsWithNewline(raw) THEN raw = shown \o << NL >> ELSE raw = shown

C12_Step ==
    (AboutToProcess("BashOutput") /\ ~most_recent_result.is_none) =>
        LET expected == bash_commands[idx].code
            raw      == most_recent_result.value
        IN  \E shown \in StringsUpTo(Len(raw)) :
              /\ IsPostTrimOf(shown, raw)
              /\ IF expected = shown
                 THEN ErrType(error') = "None"
                 ELSE /\ ErrType(error') = "Exception"
                      /\ pc' = "failed"
                      /\ error'.message =
                            << "Expected result does not match actual result.  Expected = " >>
                               \o expected \o << NL, "Actual = " >> \o shown \o << NL >>

\* C12: an assertion whose expected text differs from the actual output
\* after the trim raises the comparison error, whose message holds the
\* expected text and the actual output after the trim.
C12_ComparisonErrorCarriesBoth == [][C12_Step]_vars

\* After an environment and an executable command whose output was "f\n",
\* an assertion expecting a longer text has failed.
C12_Witness ==
    /\ ClassesAre(<< "BashEnv", "BashExec", "BashOutput" >>)
    /\ pc = "failed"
    /\ ErrType(error) = "Exception"
    /\ last_invocation.output = << 102, 10 >>
    /\ bash_commands[3].code = << "f", NL >>

\* Some executed command failed: the shell invocation of a command raised,
\* or a command replayed inside a later script exited non-zero.
SomeCommandFailed ==
    \/ ErrType(error) \in {"CalledProcessError", "UnicodeDecodeError"}
    \/ replay_failed

SomeAssertionFailed == ErrType(error) \in {"AssertionError", "Exception"}

\* C13: when the run has ended, its exit status is non-zero exactly when an
\* executed command failed (a prerequisite replayed inside a later script
\* included) or an assertion failed.
C13_ExitStatusReflectsFailures ==
    pc \in {"done", "failed"} =>
        (ExitStatus # 0 <=> (SomeCommandFailed \/ SomeAssertionFailed))

IsPrefixOf(a, b) == Len(a) <= Len(b) /\ a = SubSeq(b, 1, Len(a))

\* What a later call has done so far is what the call before it did.
C14_SameAsPreviousRun ==
    ~first_run.is_none =>
        /\ IsPrefixOf(scripts, first_run.scripts)
        /\ pc \in {"done", "failed"} =>
              /\ scripts = first_run.scripts
              /\ pc = first_run.outcome
              /\ error = first_run.error

C14_Step ==
    /\ (pc # "exec" /\ pc' = "exec") =>
          /\ current_env_altering_commands' = << >>
          /\ most_recent_result' = None
    /\ C14_SameAsPreviousRun'

\* C14: with a shell that answers the same script the same way, a second run
\* over the same classified sequence starts from an empty list and an
\* undefined result, submits the same scripts in the same order and ends in
\* the same outcome (success, or the same error at the same position).
C14_RunsAreDeterministic == [][C14_Step]_vars

\* A second run over an environment command, an executable command and an
\* assertion has ended with the comparison error of the first run.
C14_Witness ==
    /\ runs = 2
    /\ ClassesAre(<< "BashEnv", "BashExec", "BashOutput" >>)
    /\ pc = "failed"
    /\ ErrType(error) = "Exception"
    /\ Len(scripts) = 2

BranchOfClass(cls) ==
    CASE cls = "BashEnv" -> "env"
      [] cls = "BashExec" -> "exec"
      [] cls = "BashOutput" -> "output"

EnabledBranches ==
    { b \in {"env", "exec", "output", "other"} :
        \/ b = "env" /\ ENABLED EnvBranch
        \/ b = "exec" /\ ENABLED ExecBranch
        \/ b = "output" /\ ENABLED OutputBranch
        \/ b = "other" /\ ENABLED OtherBranch }

C15_Step ==
    /\ \A i \in 1..Len(bash_commands) :
          /\ ClassAt(i) \in {"BashEnv", "BashExec", "BashOutput"}
          /\ Dispatch(bash_commands[i]) = BranchOfClass(ClassAt(i))
    /\ (pc = "exec" /\ idx <= Len(bash_commands)) =>
          EnabledBranches = { BranchOfClass(ClassAt(idx)) }
    /\ (AboutToProcess("BashEnv") /\ ErrType(error') = "None") =>
          current_env_altering_commands' =
              Append(current_env_altering_commands, bash_commands[idx])

\* C15: every classified command is handled by exactly one branch of the
\* loop, the one of its class: an environment command by the environment
\* branch (and so appended after success), never by the branch of the plain
\* executable command, and the else branch is never enabled.
C15_DispatchExhaustiveExclusive == [][C15_Step]_vars

\* A run over one command of each class has ended with the environment
\* command accumulated.
C15_Witness ==
    /\ ClassesAre(<< "BashEnv", "BashExec", "BashOutput" >>)
    /\ pc = "done"
    /\ current_env_altering_commands = << bash_commands[1] >>

C16_Step ==
    /\ ( /\ AboutToProcess("BashEnv") \/ AboutToProcess("BashExec")
         /\ last_invocation'.returncode = 0
         /\ last_invocation'.output = << >> ) =>
          /\ ~most_recent_result'.is_none
          /\ most_recent_result'.value = << >>
    /\ ( /\ AboutToProcess("BashOutput")
         /\ ~last_invocation.is_none
         /\ last_invocation.output = << >> ) =>
          /\ ErrType(error') # "AssertionError"
          /\ ~last_compare'.is_none
          /\ last_compare'.actual = << >>
          /\ (ErrType(error') = "None") <=> (bash_commands[idx].code = << >>)

\* C16: a command that succeeds with empty output leaves a defined, empty
\* most_recent_result, and an assertion that follows is compared against the
\* empty string, passing exactly when its expected text is empty, and does
\* not raise the assertion failure.
C16_EmptyOutputIsDefined == [][C16_Step]_vars

\* An assertion with empty expected text has passed after an executable
\* command that wrote nothing.
C16_Witness ==
    /\ ClassesAre(<< "BashExec", "BashOutput" >>)
    /\ pc = "done"
    /\ last_invocation.output = << >>
    /\ ~last_compare.is_none
    /\ last_compare.expected = << >>
    /\ last_compare.returned

====
